---- MODULE Spec2Model ----
\* A model of cmd/mygit/main.go: the object store (hash-object, cat-file),
\* the tree encoding (write-tree) and the tree listing (ls-tree).
\* Byte strings are sequences of numbers 0..255; Go's 0-based indices are kept.
EXTENDS Integers, Sequences, FiniteSets, TLC

VARIABLES
    objDirs,     \* the directories under .git/objects
    objFiles,    \* the files under .git/objects: path -> bytes on disk
    enc,         \* two runs of the tree encoding of writeTree on one entry set
    ls,          \* the outcome of the last ls-tree command
    wr,          \* the process running hash-object (position inside writeObject)
    rd,          \* the outcome of the last cat-file -p command
    fs,          \* the working directory: path -> node
    bt,          \* the process running write-tree: call stack of writeTree
    wlog,        \* the directories whose tree object was written, in order
    trunc        \* how the stored tree object was cut short, if it was

vars == <<objDirs, objFiles, enc, ls, wr, rd, fs, bt, wlog, trunc>>

-----------------------------------------------------------------------------
\* Bounds of the model.

MaxEntries == 3      \* entries of a tree handed to the encoder
MaxBlobLen == 2      \* bytes of a file given to hash-object
MaxWrites == 2       \* hash-object runs in one behaviour
MaxDepth == 2        \* nesting of the working directory

-----------------------------------------------------------------------------
\* Byte strings of the program.

NulByte == 0
SpaceByte == 32
HashSize == 20

BlobTag == <<98, 108, 111, 98>>                    \* "blob"
TreeTag == <<116, 114, 101, 101>>                  \* "tree"
ModeFile == <<49, 48, 48, 54, 52, 52>>             \* "100644"
ModeDir == <<52, 48, 48, 48, 48>>                  \* "40000"
NameA == <<97>>                                    \* "a"
NameXY == <<120, 32, 121>>                         \* "x y"
NameSub == <<115, 117, 98>>                        \* "sub"
NameGit == <<46, 103, 105, 116>>                   \* ".git"
ignoredDirs == {<<46>>, <<46, 46>>, NameGit}       \* ".", "..", ".git"

Min(a, b) == IF a < b THEN a ELSE b

\* s[lo:hi] and s[lo:] of Go
Slice(s, lo, hi) == SubSeq(s, lo + 1, hi)
SliceFrom(s, lo) == SubSeq(s, lo + 1, Len(s))

\* bytes.IndexByte: the 0-based index of the first c in s, or -1
IndexByte(s, c) ==
    IF \E i \in 1..Len(s) : s[i] = c
    THEN (CHOOSE i \in 1..Len(s) : s[i] = c /\ \A j \in 1..(i - 1) : s[j] # c) - 1
    ELSE -1

\* the 0-based index of the last c in s, or -1
LastIndexByte(s, c) ==
    IF \E i \in 1..Len(s) : s[i] = c
    THEN (CHOOSE i \in 1..Len(s) : s[i] = c /\ \A j \in (i + 1)..Len(s) : s[j] # c) - 1
    ELSE -1

\* bytes.HasPrefix
HasPrefix(s, p) == Len(s) >= Len(p) /\ SubSeq(s, 1, Len(p)) = p

\* the verb %d of fmt
RECURSIVE Itoa(_)
Itoa(n) == IF n < 10 THEN <<48 + n>> ELSE Itoa(n \div 10) \o <<48 + (n % 10)>>

HexDigit(d) == IF d < 10 THEN 48 + d ELSE 87 + d

\* the verb %x of fmt on a byte string: two digits for each byte
Hex(s) ==
    [i \in 1..(2 * Len(s)) |->
        IF i % 2 = 1 THEN HexDigit(s[(i + 1) \div 2] \div 16)
        ELSE HexDigit(s[i \div 2] % 16)]

\* bytes.Compare: -1, 0 or 1
BytesCompare(a, b) ==
    LET n == Min(Len(a), Len(b))
        diff == {i \in 1..n : a[i] # b[i]}
    IN  IF diff # {}
        THEN LET i == CHOOSE k \in diff : \A j \in diff : k <= j
             IN  IF a[i] < b[i] THEN -1 ELSE 1
        ELSE IF Len(a) < Len(b) THEN -1
        ELSE IF Len(a) > Len(b) THEN 1
        ELSE 0

\* bytes.Split on a one-byte separator
RECURSIVE Split(_, _)
Split(s, sep) ==
    LET i == IndexByte(s, sep)
    IN  IF i = -1 THEN <<s>>
        ELSE <<Slice(s, 0, i)>> \o Split(SliceFrom(s, i + 1), sep)

\* sha1.Sum, abstracted: a deterministic function from byte strings to
\* HashSize bytes. Two polynomial hashes of the input (to different moduli)
\* fill the first four bytes and the others are derived from them.
\* PolyHash gives <<hash of s[lo..hi], 131^(hi-lo+1)>> modulo m.
RECURSIVE PolyHash(_, _, _, _)
PolyHash(s, lo, hi, m) ==
    IF lo > hi THEN <<0, 1>>
    ELSE IF lo = hi THEN <<(s[lo] + 1) % m, 131 % m>>
    ELSE LET mid == (lo + hi) \div 2
             l == PolyHash(s, lo, mid, m)
             r == PolyHash(s, mid + 1, hi, m)
         IN  <<(l[1] * r[2] + r[1]) % m, (l[2] * r[2]) % m>>

Sha1Sum(s) ==
    LET p1 == PolyHash(s, 1, Len(s), 46337)
        p2 == PolyHash(s, 1, Len(s), 45007)
        h1 == (7 * p1[2] + p1[1]) % 46337
        h2 == (11 * p2[2] + p2[1]) % 45007
    IN  [i \in 1..HashSize |->
            IF i = 1 THEN h1 % 256
            ELSE IF i = 2 THEN h1 \div 256
            ELSE IF i = 3 THEN h2 % 256
            ELSE IF i = 4 THEN h2 \div 256
            ELSE (h1 * i + h2 + i) % 256]

\* The ordering of a sorted slice: the elements in ascending bytes.Compare order.
RECURSIVE InsertSorted(_, _)
InsertSorted(sorted, e) ==
    IF sorted = <<>> THEN <<e>>
    ELSE IF BytesCompare(e, sorted[1]) < 0 THEN <<e>> \o sorted
    ELSE <<sorted[1]>> \o InsertSorted(Tail(sorted), e)

RECURSIVE SortByBytes(_)
SortByBytes(s) ==
    IF s = <<>> THEN <<>>
    ELSE InsertSorted(SortByBytes(SubSeq(s, 1, Len(s) - 1)), s[Len(s)])

RECURSIVE Flatten(_)
Flatten(s) == IF s = <<>> THEN <<>> ELSE s[1] \o Flatten(Tail(s))

-----------------------------------------------------------------------------
\* zlib, modelled by its framing: a two-byte header, one stored block
\* (final-block flag, length, payload) and the Adler-32 checksum of the payload.

ZlibHeader == <<120, 156>>

\* the sum of f[lo..hi] modulo m
RECURSIVE SumMod(_, _, _, _)
SumMod(f, lo, hi, m) ==
    IF lo > hi THEN 0
    ELSE IF lo = hi THEN f[lo] % m
    ELSE LET mid == (lo + hi) \div 2
         IN  (SumMod(f, lo, mid, m) + SumMod(f, mid + 1, hi, m)) % m

\* Adler-32: a = 1 + the sum of the bytes, b = the sum of the values a takes
Adler32(s) ==
    LET n == Len(s)
        a == (1 + SumMod(s, 1, n, 65521)) % 65521
        b == (n + SumMod([i \in 1..n |-> (n - i + 1) * s[i]], 1, n, 65521)) % 65521
    IN  <<b \div 256, b % 256, a \div 256, a % 256>>

DeflateBlock(s) == <<1, Len(s)>> \o s

ZlibCompress(s) == ZlibHeader \o DeflateBlock(s) \o Adler32(s)

\* zlib.NewReader followed by io.ReadAll
ZlibDecompress(data) ==
    IF ~HasPrefix(data, ZlibHeader)
    THEN [err |-> "failed to create zlib reader", data |-> <<>>]
    ELSE LET rest == SliceFrom(data, 2)
         IN  IF Len(rest) < 2 \/ Len(rest) < 2 + rest[2] + 4
             THEN [err |-> "failed to decompress data", data |-> <<>>]
             ELSE LET payload == Slice(rest, 2, 2 + rest[2])
                  IN  IF SliceFrom(rest, 2 + rest[2]) # Adler32(payload)
                      THEN [err |-> "failed to decompress data", data |-> <<>>]
                      ELSE [err |-> "", data |-> payload]

-----------------------------------------------------------------------------
\* The object store on disk.

\* filepath.Join(objDir, hexHash[:2], hexHash[2:])
ObjectPath(hexHash) == <<Slice(hexHash, 0, 2), SliceFrom(hexHash, 2)>>

\* os.ReadFile
FileExists(files, path) == path \in DOMAIN files

\* os.Create without truncation of an existing file
OsCreateKeep(files, path) ==
    IF path \in DOMAIN files THEN files
    ELSE [p \in DOMAIN files \cup {path} |-> IF p = path THEN <<>> ELSE files[p]]

\* os.Create: the file exists and is empty afterwards
OsCreate(files, path) ==
    [p \in DOMAIN files \cup {path} |-> IF p = path THEN <<>> ELSE files[p]]

\* a Write on the open file: the bytes are appended
FileWrite(files, path, data) == [files EXCEPT ![path] = @ \o data]

\* writeObject, run to completion
WriteObject(files, objectContent, hash) ==
    LET path == ObjectPath(Hex(hash))
        f0 == OsCreate(files, path)
        f1 == FileWrite(f0, path, ZlibHeader)
        f2 == FileWrite(f1, path, DeflateBlock(objectContent))
    IN  FileWrite(f2, path, Adler32(objectContent))

\* fmt.Sprintf("blob %d\x00%s", len(fileContent), fileContent)
BlobObject(fileContent) ==
    BlobTag \o <<SpaceByte>> \o Itoa(Len(fileContent)) \o <<NulByte>> \o fileContent

\* getBlobContent cut at the last NUL
GetBlobContentLast(blob) ==
    LET nullIndex == LastIndexByte(blob, NulByte)
    IN  IF nullIndex = -1 THEN <<>> ELSE SliceFrom(blob, nullIndex + 1)

\* getBlobContent
getBlobContent(blob) ==
    LET nullIndex == IndexByte(blob, NulByte)
    IN  IF nullIndex = -1 THEN <<>> ELSE SliceFrom(blob, nullIndex + 1)

\* readBlob: the error ("" when none), the bytes read from disk, the body
readBlob(files, hexHash) ==
    LET path == ObjectPath(hexHash)
    IN  IF ~FileExists(files, path)
        THEN [err |-> "failed to open file", seen |-> <<>>, body |-> <<>>]
        ELSE LET z == ZlibDecompress(files[path])
             IN  IF z.err # ""
                 THEN [err |-> z.err, seen |-> files[path], body |-> <<>>]
                 ELSE [err |-> "", seen |-> files[path], body |-> getBlobContent(z.data)]

-----------------------------------------------------------------------------
\* The tree encoding of writeTree.

\* fmt.Sprintf("%s %s\x00", mode, name) followed by the raw hash
EntryData(mode, name, hash) == mode \o <<SpaceByte>> \o name \o <<NulByte>> \o hash

\* fmt.Sprintf("tree %d\x00%s", len(flattened), flattened)
TreeObject(flattened) ==
    TreeTag \o <<SpaceByte>> \o Itoa(Len(flattened)) \o <<NulByte>> \o flattened

\* the tree object without the sort of the entries
EncodeTreeUnsorted(treeEntries) == TreeObject(Flatten(treeEntries))

\* sort.Slice by bytes.Compare, flatten, frame
EncodeTree(treeEntries) == TreeObject(Flatten(SortByBytes(treeEntries)))

-----------------------------------------------------------------------------
\* lsTree.

\* the loop over the tree body; "panic" stands for a run-time panic
RECURSIVE lsTreeLoop(_, _, _)
lsTreeLoop(content, nameOnly, result) ==
    IF Len(content) = 0 THEN [status |-> "ok", lines |-> result]
    ELSE LET nullIndex == IndexByte(content, NulByte)
         IN  IF nullIndex = -1 THEN [status |-> "ok", lines |-> result]
             ELSE LET entry == Slice(content, 0, nullIndex)
                      rest == SliceFrom(content, nullIndex + 1)
                      parts == Split(entry, SpaceByte)
                  IN  IF Len(parts) < 2 \/ Len(rest) < HashSize
                      THEN [status |-> "panic", lines |-> <<>>]
                      ELSE LET mode == parts[1]
                               name == parts[2]
                               sha == Slice(rest, 0, HashSize)
                               line == IF nameOnly THEN name
                                       ELSE mode \o <<SpaceByte>> \o name
                                                 \o <<SpaceByte>> \o Hex(sha)
                           IN  lsTreeLoop(SliceFrom(rest, HashSize), nameOnly,
                                          Append(result, line))

lsTree(files, hexHash, nameOnly) ==
    LET path == ObjectPath(hexHash)
    IN  IF ~FileExists(files, path)
        THEN [status |-> "failed to open file", lines |-> <<>>]
        ELSE LET z == ZlibDecompress(files[path])
             IN  IF z.err # "" THEN [status |-> z.err, lines |-> <<>>]
                 ELSE IF ~HasPrefix(z.data, TreeTag)
                 THEN [status |-> "object is not a tree", lines |-> <<>>]
                 ELSE LET nullIndex == IndexByte(z.data, NulByte)
                      IN  IF nullIndex = -1
                          THEN [status |-> "invalid tree object format", lines |-> <<>>]
                          ELSE LET r == lsTreeLoop(SliceFrom(z.data, nullIndex + 1),
                                                   nameOnly, <<>>)
                               IN  [status |-> r.status, lines |-> SortByBytes(r.lines)]

-----------------------------------------------------------------------------
\* Initial values: an empty object store (after init) and no command run yet.

NoPath == << <<>> >>     \* no path: a path with an empty name
EmptyFiles == [p \in {} |-> <<>>]

encInit == [phase |-> 0, first |-> <<>>, second |-> <<>>,
            t1 |-> <<>>, t2 |-> <<>>, h1 |-> <<>>, h2 |-> <<>>]
lsInit == [done |-> FALSE, hex |-> <<>>, nameOnly |-> FALSE,
           status |-> "", lines |-> <<>>]
wrInit == [pc |-> "idle", b |-> <<>>, w |-> FALSE, content |-> <<>>, hash |-> <<>>,
           before |-> EmptyFiles, beforeDirs |-> {}, n |-> 0]
rdInit == [done |-> FALSE, hex |-> <<>>, err |-> "", seen |-> <<>>, body |-> <<>>,
           b |-> <<>>, wpc |-> ""]
btInit == [status |-> "idle", stack |-> <<>>, result |-> <<>>,
           failPath |-> NoPath, failFiles |-> EmptyFiles]
truncInit == [entries |-> <<>>, cut |-> 0]
fsInit == [p \in {<<>>} |-> [isDir |-> TRUE, readable |-> TRUE]]

\* the hex digest named by a path of the store
HexOfPath(path) == path[1] \o path[2]

\* ls-tree [--name-only] <hash>
LsTreeRun(hexHash, nameOnly) ==
    LET r == lsTree(objFiles, hexHash, nameOnly)
    IN  ls' = [done |-> TRUE, hex |-> hexHash, nameOnly |-> nameOnly,
               status |-> r.status, lines |-> r.lines]

\* cat-file -p <hash>; b and wpc record what the writer was doing at that time
CatFileRun(hexHash, b, wpc) ==
    LET r == readBlob(objFiles, hexHash)
    IN  rd' = [done |-> TRUE, hex |-> hexHash, err |-> r.err, seen |-> r.seen,
               body |-> r.body, b |-> b, wpc |-> wpc]

-----------------------------------------------------------------------------
\* SpecCodec: the tree encoder and the tree parser on drawn inputs.

BlobHash == Sha1Sum(BlobObject(<<>>))
TreeHash == Sha1Sum(TreeObject(<<>>))

EntryUniverse ==
    {EntryData(ModeFile, NameA, BlobHash), EntryData(ModeFile, NameA, TreeHash),
     EntryData(ModeFile, NameXY, BlobHash), EntryData(ModeDir, NameA, TreeHash),
     EntryData(ModeDir, NameXY, TreeHash), EntryData(ModeDir, NameSub, TreeHash)}

EntrySets == {S \in SUBSET EntryUniverse : Cardinality(S) <= MaxEntries}

\* the listings of a set: its elements in every order
Orders(S) ==
    {p \in [1..Cardinality(S) -> S] : \A i, j \in 1..Cardinality(S) : p[i] = p[j] => i = j}

\* the encoding step of writeTree on a listing
EncodeFirst ==
    /\ enc.phase = 0
    /\ DOMAIN objFiles = {}
    /\ \E S \in EntrySets : \E p \in Orders(S) :
         enc' = [enc EXCEPT !.phase = 1, !.first = p, !.t1 = EncodeTree(p),
                            !.h1 = Sha1Sum(EncodeTree(p))]
    /\ UNCHANGED <<objDirs, objFiles, ls, wr, rd, fs, bt, wlog, trunc>>

\* the same step on another listing of the same entries
EncodeAgain ==
    /\ enc.phase = 1
    /\ \E p \in Orders({enc.first[i] : i \in 1..Len(enc.first)}) :
         enc' = [enc EXCEPT !.phase = 2, !.second = p, !.t2 = EncodeTree(p),
                            !.h2 = Sha1Sum(EncodeTree(p))]
    /\ UNCHANGED <<objDirs, objFiles, ls, wr, rd, fs, bt, wlog, trunc>>

\* A tree object whose body lost its last cut bytes is put into the store.
StoreTruncated ==
    /\ DOMAIN objFiles = {}
    /\ enc.phase = 0
    /\ \E S \in EntrySets \ {{}} : \E cut \in 0..(Len(ModeFile) + Len(NameXY) + HashSize + 1) :
         LET sorted == SortByBytes(CHOOSE p \in Orders(S) : TRUE)
             body == Flatten(sorted)
             kept == Slice(body, 0, Len(body) - cut)
             object == TreeObject(kept)
             hash == Sha1Sum(object)
         IN  /\ cut < Len(sorted[Len(sorted)])
             /\ objFiles' = WriteObject(objFiles, object, hash)
             /\ objDirs' = objDirs \cup {ObjectPath(Hex(hash))[1]}
             /\ trunc' = [entries |-> sorted, cut |-> cut]
    /\ UNCHANGED <<enc, ls, wr, rd, fs, bt, wlog>>

LsTreeStored ==
    /\ ~ls.done
    /\ bt.status \in {"idle", "ok", "failed"}
    /\ \E p \in DOMAIN objFiles : \E nameOnly \in BOOLEAN :
         LsTreeRun(HexOfPath(p), nameOnly)
    /\ UNCHANGED <<objDirs, objFiles, enc, wr, rd, fs, bt, wlog, trunc>>

Init ==
    /\ objDirs = {}
    /\ objFiles = EmptyFiles
    /\ enc = encInit
    /\ ls = lsInit
    /\ wr = wrInit
    /\ rd = rdInit
    /\ fs = fsInit
    /\ bt = btInit
    /\ wlog = <<>>
    /\ trunc = truncInit

NextCodec == EncodeFirst \/ EncodeAgain \/ StoreTruncated \/ LsTreeStored

SpecCodec == Init /\ [][NextCodec]_vars

-----------------------------------------------------------------------------
\* SpecBlob: hash-object [-w] on drawn file contents, step by step through
\* writeObject, with cat-file -p of the same digest run by another process
\* at any moment.

BlobBytes == {0, 120}

RECURSIVE SeqsUpTo(_, _)
SeqsUpTo(S, n) ==
    IF n = 0 THEN {<<>>}
    ELSE LET shorter == SeqsUpTo(S, n - 1)
         IN  shorter \cup {Append(q, x) : q \in shorter, x \in S}

FileContents == SeqsUpTo(BlobBytes, MaxBlobLen)

\* hashObject: the framed blob and its digest
hashObject(fileContent) ==
    [objectContent |-> BlobObject(fileContent),
     hash |-> Sha1Sum(BlobObject(fileContent))]

\* main, case "hash-object": hashObject, and with -w the call of writeObject
HashObjectCmd ==
    /\ wr.pc \in {"idle", "done"}
    /\ wr.n < MaxWrites
    /\ \E b \in FileContents : \E w \in BOOLEAN :
         LET o == hashObject(b)
         IN  wr' = [pc |-> IF w THEN "create" ELSE "done", b |-> b, w |-> w,
                    content |-> o.objectContent, hash |-> o.hash,
                    before |-> objFiles, beforeDirs |-> objDirs, n |-> wr.n + 1]
    /\ UNCHANGED <<objDirs, objFiles, enc, ls, rd, fs, bt, wlog, trunc>>

\* writeObject: os.MkdirAll and os.Create
WrCreate ==
    /\ wr.pc = "create"
    /\ LET path == ObjectPath(Hex(wr.hash))
       IN  /\ objDirs' = objDirs \cup {path[1]}
           /\ objFiles' = OsCreate(objFiles, path)
    /\ wr' = [wr EXCEPT !.pc = "header"]
    /\ UNCHANGED <<enc, ls, rd, fs, bt, wlog, trunc>>

\* writeObject: w.Write, which puts the zlib header into the file
WrHeader ==
    /\ wr.pc = "header"
    /\ objFiles' = FileWrite(objFiles, ObjectPath(Hex(wr.hash)), ZlibHeader)
    /\ wr' = [wr EXCEPT !.pc = "flush"]
    /\ UNCHANGED <<objDirs, enc, ls, rd, fs, bt, wlog, trunc>>

\* writeObject: the deferred w.Close, which flushes the compressed data
WrFlush ==
    /\ wr.pc = "flush"
    /\ objFiles' = FileWrite(objFiles, ObjectPath(Hex(wr.hash)), DeflateBlock(wr.content))
    /\ wr' = [wr EXCEPT !.pc = "sum"]
    /\ UNCHANGED <<objDirs, enc, ls, rd, fs, bt, wlog, trunc>>

\* writeObject: w.Close writes the checksum, then f.Close; main prints the hash
WrSum ==
    /\ wr.pc = "sum"
    /\ objFiles' = FileWrite(objFiles, ObjectPath(Hex(wr.hash)), Adler32(wr.content))
    /\ wr' = [wr EXCEPT !.pc = "done"]
    /\ UNCHANGED <<objDirs, enc, ls, rd, fs, bt, wlog, trunc>>

\* main, case "cat-file", for the digest hash-object computes
CatFileOfBlob ==
    /\ wr.pc # "idle"
    /\ CatFileRun(Hex(wr.hash), wr.b,
                  IF wr.pc = "done" /\ ~wr.w THEN "printed" ELSE wr.pc)
    /\ UNCHANGED <<objDirs, objFiles, enc, ls, wr, fs, bt, wlog, trunc>>

NextBlob == HashObjectCmd \/ WrCreate \/ WrHeader \/ WrFlush \/ WrSum \/ CatFileOfBlob

SpecBlob == Init /\ [][NextBlob]_vars

-----------------------------------------------------------------------------
\* SpecTree: write-tree on a drawn working directory, one step of writeTree
\* at a time (the call stack is explicit), then ls-tree and cat-file -p on
\* the objects it stored.

SubChain(k) == [i \in 1..k |-> NameSub]

CandidatePaths ==
    {Append(SubChain(k), n) : k \in 0..(MaxDepth - 1), n \in {NameA, NameXY, NameSub}}
        \cup {<<NameGit>>}

Parent(p) == SubSeq(p, 1, Len(p) - 1)
Base(p) == p[Len(p)]

PathSets == {P \in SUBSET CandidatePaths : \A p \in P : Len(p) = 1 \/ Parent(p) \in P}

\* a working directory: the root, the paths in it, and at most one path that
\* cannot be read
FileSystems ==
    {[p \in P \cup {<<>>} |->
        [isDir |-> p = <<>> \/ Base(p) \in {NameSub, NameGit}, readable |-> p # bad]] :
     P \in PathSets, bad \in CandidatePaths \cup {<<>>, NoPath}}

\* the bytes of a regular file
FileContent(path) == IF Base(path) = NameA THEN <<120>> ELSE <<>>

RECURSIVE SortedNames(_)
SortedNames(S) ==
    IF S = {} THEN <<>>
    ELSE LET m == CHOOSE x \in S : \A y \in S : BytesCompare(x, y) <= 0
         IN  <<m>> \o SortedNames(S \ {m})

\* os.ReadDir: the names in the directory, sorted by filename
ReadDir(path) ==
    SortedNames({Base(p) : p \in {q \in DOMAIN fs : q # <<>> /\ Parent(q) = path}})

NewFrame(path) ==
    [path |-> path, pc |-> "readdir", entries |-> <<>>, i |-> 1,
     treeEntries |-> <<>>, items |-> <<>>]

Running == bt.status = "running" /\ bt.stack # <<>>
Top == bt.stack[Len(bt.stack)]
Pop(stack) == SubSeq(stack, 1, Len(stack) - 1)
InLoop == Running /\ Top.pc = "loop" /\ Top.i <= Len(Top.entries)
EntryPath == Append(Top.path, Top.entries[Top.i])

\* an error return of the running call: its frame is gone, its caller sees err
ReturnErr(b) ==
    [b EXCEPT !.stack = Pop(b.stack),
              !.status = IF Len(b.stack) = 1 THEN "failed" ELSE "failing"]

\* the entry is appended to treeEntries and the loop goes on
WithEntry(frame, mode, name, hash) ==
    [frame EXCEPT !.treeEntries = Append(@, EntryData(mode, name, hash)),
                  !.items = Append(@, [mode |-> mode, name |-> name, hash |-> hash]),
                  !.i = @ + 1]

\* main, case "write-tree": writeTree(".")
WriteTreeCmd ==
    /\ bt.status = "idle"
    /\ bt' = [bt EXCEPT !.status = "running", !.stack = <<NewFrame(<<>>)>>]
    /\ UNCHANGED <<objDirs, objFiles, enc, ls, wr, rd, fs, wlog, trunc>>

\* writeTree: os.ReadDir(path) and its error return
ReadDirStep ==
    /\ Running
    /\ Top.pc = "readdir"
    /\ bt' = IF fs[Top.path].readable
             THEN [bt EXCEPT !.stack[Len(bt.stack)] =
                        [@ EXCEPT !.pc = "loop", !.entries = ReadDir(Top.path)]]
             ELSE ReturnErr([bt EXCEPT !.failPath = Top.path, !.failFiles = objFiles])
    /\ UNCHANGED <<objDirs, objFiles, enc, ls, wr, rd, fs, wlog, trunc>>

\* writeTree: an entry named in ignoredDirs is skipped
LoopIgnored ==
    /\ InLoop
    /\ Top.entries[Top.i] \in ignoredDirs
    /\ bt' = [bt EXCEPT !.stack[Len(bt.stack)].i = @ + 1]
    /\ UNCHANGED <<objDirs, objFiles, enc, ls, wr, rd, fs, wlog, trunc>>

\* a directory entry taken without the recursive call
LoopDirSkip ==
    /\ InLoop
    /\ Top.entries[Top.i] \notin ignoredDirs
    /\ fs[EntryPath].isDir
    /\ bt' = [bt EXCEPT !.stack[Len(bt.stack)] =
                  WithEntry(@, ModeDir, Base(EntryPath), [i \in 1..HashSize |-> 0])]
    /\ UNCHANGED <<objDirs, objFiles, enc, ls, wr, rd, fs, wlog, trunc>>

\* writeTree: a directory entry, the recursive call writeTree(entryPath)
LoopDir ==
    /\ InLoop
    /\ Top.entries[Top.i] \notin ignoredDirs
    /\ fs[EntryPath].isDir
    /\ bt' = [bt EXCEPT !.stack = Append(@, NewFrame(EntryPath))]
    /\ UNCHANGED <<objDirs, objFiles, enc, ls, wr, rd, fs, wlog, trunc>>

\* a file entry where a failed read does not end the call
LoopFileSkip ==
    /\ InLoop
    /\ Top.entries[Top.i] \notin ignoredDirs
    /\ ~fs[EntryPath].isDir
    /\ bt' = IF fs[EntryPath].readable
             THEN [bt EXCEPT !.stack[Len(bt.stack)] =
                        WithEntry(@, ModeFile, Base(EntryPath),
                                  hashObject(FileContent(EntryPath)).hash)]
             ELSE [bt EXCEPT !.failPath = Top.path, !.failFiles = objFiles,
                             !.stack[Len(bt.stack)].i = @ + 1]
    /\ UNCHANGED <<objDirs, objFiles, enc, ls, wr, rd, fs, wlog, trunc>>

\* writeTree: a file entry, hashObject(entryPath) and its error return
LoopFile ==
    /\ InLoop
    /\ Top.entries[Top.i] \notin ignoredDirs
    /\ ~fs[EntryPath].isDir
    /\ bt' = IF fs[EntryPath].readable
             THEN [bt EXCEPT !.stack[Len(bt.stack)] =
                        WithEntry(@, ModeFile, Base(EntryPath),
                                  hashObject(FileContent(EntryPath)).hash)]
             ELSE ReturnErr([bt EXCEPT !.failPath = Top.path, !.failFiles = objFiles])
    /\ UNCHANGED <<objDirs, objFiles, enc, ls, wr, rd, fs, wlog, trunc>>

\* writeTree: after the loop the entries are sorted, flattened, framed and
\* hashed, the tree object is written, and the caller appends the entry
WriteTreeFinish ==
    /\ Running
    /\ Top.pc = "loop"
    /\ Top.i > Len(Top.entries)
    /\ LET treeObject == EncodeTree(Top.treeEntries)
           hash == Sha1Sum(treeObject)
           rest == Pop(bt.stack)
       IN  /\ objDirs' = objDirs \cup {ObjectPath(Hex(hash))[1]}
           /\ objFiles' = WriteObject(objFiles, treeObject, hash)
           /\ wlog' = Append(wlog, [path |-> Top.path, hash |-> hash, items |-> Top.items])
           /\ bt' = IF rest = <<>>
                    THEN [bt EXCEPT !.status = "ok", !.stack = rest, !.result = hash]
                    ELSE [bt EXCEPT !.stack =
                            [rest EXCEPT ![Len(rest)] =
                                WithEntry(@, ModeDir, Base(Top.path), hash)]]
    /\ UNCHANGED <<enc, ls, wr, rd, fs, trunc>>

\* writeTree: the caller of a failed recursive call returns the error
Unwind ==
    /\ bt.status = "failing"
    /\ bt' = ReturnErr(bt)
    /\ UNCHANGED <<objDirs, objFiles, enc, ls, wr, rd, fs, wlog, trunc>>

\* main, case "cat-file", on an object of the store
CatFileStored ==
    /\ ~rd.done
    /\ bt.status \in {"ok", "failed"}
    /\ \E p \in DOMAIN objFiles : CatFileRun(HexOfPath(p), <<>>, "")
    /\ UNCHANGED <<objDirs, objFiles, enc, ls, wr, fs, bt, wlog, trunc>>

InitTree ==
    /\ objDirs = {}
    /\ objFiles = EmptyFiles
    /\ enc = encInit
    /\ ls = lsInit
    /\ wr = wrInit
    /\ rd = rdInit
    /\ fs \in FileSystems
    /\ bt = btInit
    /\ wlog = <<>>
    /\ trunc = truncInit

NextTree ==
    \/ WriteTreeCmd \/ ReadDirStep \/ LoopIgnored \/ LoopDir \/ LoopFile
    \/ WriteTreeFinish \/ Unwind \/ LsTreeStored \/ CatFileStored

SpecTree == InitTree /\ [][NextTree]_vars

-----------------------------------------------------------------------------
\* The properties.

FormatErrors == {"object is not a tree", "invalid tree object format"}

IsPrefix(p, q) == Len(p) <= Len(q) /\ SubSeq(q, 1, Len(p)) = p

\* a path with a component named in ignoredDirs is never visited
Excluded(p) == \E k \in 1..Len(p) : p[k] \in ignoredDirs

\* the line of ls-tree for an entry
DisplayLine(item) ==
    item.mode \o <<SpaceByte>> \o item.name \o <<SpaceByte>> \o Hex(item.hash)

\* C1: encoding one set of tree entries from two listings of it, in any two
\* orders, gives the same framed tree bytes and the same digest.
C1_CanonicalTreeOrdering ==
    enc.phase = 2 => (enc.t1 = enc.t2 /\ enc.h1 = enc.h2)

C1_Witness ==
    /\ enc.phase = 2
    /\ Len(enc.first) >= 2
    /\ enc.first # enc.second
    /\ enc.t1 = enc.t2

\* C2: ls-tree on a stored tree object whose body was cut short inside its
\* last entry (digest shorter than 20 bytes, or no NUL left) ends with a
\* format error.
C2_TruncationRejected ==
    (ls.done /\ trunc.cut >= 1) => ls.status \in FormatErrors

\* C3: when writeObject has finished, every other object of the store is as
\* it was before the call, and if the object had been written before, the
\* whole store (paths and contents) is as it was before the call.
C3_IdempotentWrite ==
    (wr.pc = "done" /\ wr.w) =>
        LET path == ObjectPath(Hex(wr.hash))
        IN  /\ \A p \in DOMAIN wr.before \ {path} :
                 p \in DOMAIN objFiles /\ objFiles[p] = wr.before[p]
            /\ path \in DOMAIN wr.before =>
                 (objFiles = wr.before /\ objDirs = wr.beforeDirs)

C3_Witness ==
    /\ wr.pc = "done"
    /\ wr.w
    /\ ObjectPath(Hex(wr.hash)) \in DOMAIN wr.before
    /\ objFiles = wr.before

\* C4: cat-file -p of the digest that hash-object -w returned for a file
\* succeeds and yields exactly the bytes of the file.
C4_BlobRoundTrip ==
    (rd.done /\ rd.wpc = "done") => (rd.err = "" /\ rd.body = rd.b)

C4_Witness ==
    /\ rd.done
    /\ rd.wpc = "done"
    /\ rd.body = rd.b
    /\ rd.seen = ZlibCompress(BlobObject(rd.b))
    /\ Len(rd.b) = MaxBlobLen
    /\ \E i \in 1..Len(rd.b) : rd.b[i] = NulByte

\* C5: after write-tree has succeeded, every entry of mode 100644 in every
\* tree object it wrote names an object that is in the store.
C5_BlobsPersisted ==
    bt.status = "ok" =>
        \A i \in 1..Len(wlog) : \A k \in 1..Len(wlog[i].items) :
            wlog[i].items[k].mode = ModeFile =>
                FileExists(objFiles, ObjectPath(Hex(wlog[i].items[k].hash)))

\* C6: a cat-file -p run while hash-object -w writes the same object either
\* fails because the object is absent or yields the complete content.
C6_NoPartialReads ==
    rd.done => (rd.err = "failed to open file" \/ (rd.err = "" /\ rd.body = rd.b))

\* C7: once a read of a file or directory has failed, write-tree is on its
\* way to an error return, no tree object has been written for the directory
\* of the failure or for any of its ancestors, and every object that was in
\* the store at the failure is still there, unchanged.
C7_BuildFailure ==
    bt.failPath # NoPath =>
        /\ bt.status \in {"failing", "failed"}
        /\ \A i \in 1..Len(wlog) : ~IsPrefix(wlog[i].path, bt.failPath)
        /\ \A p \in DOMAIN bt.failFiles :
             p \in DOMAIN objFiles /\ objFiles[p] = bt.failFiles[p]

C7_Witness ==
    /\ bt.status = "failed"
    /\ Len(bt.failPath) >= 1
    /\ Len(wlog) >= 1
    /\ DOMAIN bt.failFiles # {}
    /\ bt.failFiles = objFiles

\* C8: cat-file -p on a stored tree object fails with a format error and
\* yields no body bytes.
C8_BlobTypeCheck ==
    (rd.done /\ \E i \in 1..Len(wlog) : Hex(wlog[i].hash) = rd.hex) =>
        (rd.err \in FormatErrors /\ rd.body = <<>>)

\* C9: a directory's tree object is written only after the tree objects of
\* all the directories below it that are not excluded, and the tree object
\* of the root is the last one written.
C9_BottomUpWrites ==
    \A i \in 1..Len(wlog) :
        /\ \A q \in DOMAIN fs :
             (/\ fs[q].isDir
              /\ Len(q) > Len(wlog[i].path)
              /\ IsPrefix(wlog[i].path, q)
              /\ ~Excluded(q))
                 => \E j \in 1..(i - 1) : wlog[j].path = q
        /\ wlog[i].path = <<>> => (i = Len(wlog) /\ bt.status = "ok")

C9_Witness ==
    /\ bt.status = "ok"
    /\ Len(wlog) >= MaxDepth + 1
    /\ wlog[Len(wlog)].path = <<>>
    /\ \E i \in 1..Len(wlog) : Len(wlog[i].path) = MaxDepth

\* C10: ls-tree (without --name-only) on the digest write-tree returned
\* prints one line for each entry of the root that is not excluded, with the
\* entry's mode, its full name and the hex of its hash.
C10_TreeRoundTrip ==
    (ls.done /\ bt.status = "ok" /\ ls.hex = Hex(bt.result) /\ ~ls.nameOnly) =>
        LET items == wlog[Len(wlog)].items
        IN  /\ ls.status = "ok"
            /\ Len(ls.lines) = Len(items)
            /\ Len(items) = Cardinality({n \in {ReadDir(<<>>)[k] : k \in 1..Len(ReadDir(<<>>))} :
                                            n \notin ignoredDirs})
            /\ \A k \in 1..Len(items) :
                 \E j \in 1..Len(ls.lines) : ls.lines[j] = DisplayLine(items[k])

====
